---- MODULE Spec2Model ----
(***************************************************************************)
(* A model of proxylist.py: the folder-title parser, the code extractors,  *)
(* the label matchers, the date selection policy, the folder scan, the     *)
(* row builder and the HTTP helper with its retry loop.                    *)
(*                                                                         *)
(* Text is a string; the regular expressions of the source are evaluated   *)
(* character by character on it.                                           *)
(* Titles and names are single-line text (no line break occurs in them).   *)
(***************************************************************************)
EXTENDS Integers, Sequences, FiniteSets, TLC

VARIABLES
  title, jobs, parsed,                       \* parse_folder_multi
  candidates, today, chosen, picked,         \* pick_best_iso
  folders, fidx, rows, df, built,            \* the row builder of the run block
  lists, phase, li, task, cfi,               \* scan_folder_metadata: its loops
  meta, brd_accum, seen_codes,               \* ... its result and code accumulator
  rec_exact, rec_fuzzy, mtg_exact, mtg_fuzzy, \* ... its date candidates
  visited,                                   \* ... what the loops have visited so far
  stage, folders_left, lists_left, nrows, ui, \* the run block: its position and output
  request, attempt, http, status,            \* get_json: the call in progress
  issued, pauses                             \* ... the requests sent and pauses made by it

parseVars == <<title, jobs, parsed>>
pickVars == <<candidates, today, chosen, picked>>
rowVars == <<folders, fidx, rows, df, built>>
scanVars == <<lists, phase, li, task, cfi, meta, brd_accum, seen_codes,
              rec_exact, rec_fuzzy, mtg_exact, mtg_fuzzy, visited>>
runVars == <<stage, folders_left, lists_left, nrows, ui>>
httpVars == <<request, attempt, http, status, issued, pauses>>
vars == <<parseVars, pickVars, rowVars, scanVars, runVars, httpVars>>

ParseIdle == title = "" /\ jobs = <<>> /\ parsed = TRUE
PickIdle == candidates = <<>> /\ today = <<0, 0, 0>> /\ chosen = "" /\ picked = TRUE
RowsIdle == folders = <<>> /\ fidx = 1 /\ rows = <<>> /\ df = <<>> /\ built = "idle"
NoTask == [name |-> "", due_date |-> "", status_type |-> "", custom_fields |-> <<>>]
EmptyMeta == [mc_code |-> "", brd_code |-> "", record_date |-> "", meeting_date |-> ""]
ScanIdle ==
  /\ lists = <<>> /\ phase = "idle" /\ li = 1 /\ task = NoTask /\ cfi = 1
  /\ meta = EmptyMeta /\ brd_accum = <<>> /\ seen_codes = {}
  /\ rec_exact = <<>> /\ rec_fuzzy = <<>> /\ mtg_exact = <<>> /\ mtg_fuzzy = <<>>
  /\ visited = <<>>
NoRequest == [url |-> <<>>, headers |-> "", params |-> ""]
RunIdle ==
  /\ stage = "idle" /\ folders_left = 0 /\ lists_left = 0 /\ nrows = 0 /\ ui = <<>>
  /\ request = NoRequest /\ attempt = 0 /\ http = "none" /\ status = 0
  /\ issued = <<>> /\ pauses = <<>>

(***************************************************************************)
(* Characters and text                                                     *)
(***************************************************************************)
Digits == {"0","1","2","3","4","5","6","7","8","9"}
LowerLetters == <<"a","b","c","d","e","f","g","h","i","j","k","l","m",
                  "n","o","p","q","r","s","t","u","v","w","x","y","z">>
UpperLetters == <<"A","B","C","D","E","F","G","H","I","J","K","L","M",
                  "N","O","P","Q","R","S","T","U","V","W","X","Y","Z">>

LowerSet == {LowerLetters[i] : i \in 1..26}
UpperSet == {UpperLetters[i] : i \in 1..26}
UpperOf == [c \in LowerSet |-> UpperLetters[CHOOSE i \in 1..26 : LowerLetters[i] = c]]
LowerOf == [c \in UpperSet |-> LowerLetters[CHOOSE i \in 1..26 : UpperLetters[i] = c]]

\* the character of the text s at index i (text is a string; indexes start at 1)
At(s, i) == SubSeq(s, i, i)

IsDigit(c) == c \in Digits
IsLower(c) == c \in LowerSet
IsUpper(c) == c \in UpperSet
\* \s of the regular expressions and the characters str.strip() removes
IsSpace(c) == c \in {" ", "\t"}
\* \w of the regular expressions
IsWordChar(c) == c \in Digits \/ c \in LowerSet \/ c \in UpperSet \/ c = "_"

UpperChar(c) == IF c \in LowerSet THEN UpperOf[c] ELSE c
RECURSIVE Upper(_)
\* str.upper()
Upper(s) == IF s = "" THEN "" ELSE UpperChar(Head(s)) \o Upper(Tail(s))

\* the index of the first character at or after i that is not whitespace
RECURSIVE SkipSpace(_, _)
SkipSpace(s, i) ==
  IF i <= Len(s) /\ IsSpace(At(s, i)) THEN SkipSpace(s, i + 1) ELSE i

\* the index of the last character at or before i that is not whitespace
RECURSIVE SkipSpaceBack(_, _)
SkipSpaceBack(s, i) ==
  IF i >= 1 /\ IsSpace(At(s, i)) THEN SkipSpaceBack(s, i - 1) ELSE i

\* str.strip()
Strip(s) == SubSeq(s, SkipSpace(s, 1), SkipSpaceBack(s, Len(s)))

\* n digits stand at s[i..i+n-1]
DigitsAt(s, i, n) == i + n - 1 <= Len(s) /\ \A k \in i..(i + n - 1) : IsDigit(At(s, k))

RECURSIVE Concat(_)
Concat(ss) == IF ss = <<>> THEN "" ELSE Head(ss) \o Concat(Tail(ss))

RECURSIVE SeqsUpTo(_, _)
\* the sequences of at most n elements of S
SeqsUpTo(S, n) ==
  IF n = 0 THEN {<<>>}
  ELSE LET shorter == SeqsUpTo(S, n - 1)
       IN shorter \cup {Append(q, x) : q \in shorter, x \in S}

RECURSIVE Dedup(_, _)
\* the loop "for n in ...: if n not in seen: seen.add(n); nums.append(n)"
Dedup(xs, acc) ==
  IF xs = <<>> THEN acc
  ELSE Dedup(Tail(xs),
             IF \E k \in 1..Len(acc) : acc[k] = Head(xs) THEN acc
             ELSE Append(acc, Head(xs)))

(***************************************************************************)
(* parse_folder_multi                                                      *)
(***************************************************************************)
\* base_re = ^\s*(\d{6})(.*)$ : the index of the first of the six digits, 0
\* when the text does not match
BaseStart(t) ==
  LET i == SkipSpace(t, 1) IN IF DigitsAt(t, i, 6) THEN i ELSE 0

RECURSIVE FindAllAfter(_, _, _, _)
\* findall of  <mark>\s*(\d{n})  from index i on: the captured digit groups of
\* the non-overlapping matches, left to right
FindAllAfter(s, i, mark, n) ==
  IF i > Len(s) THEN <<>>
  ELSE IF At(s, i) = mark /\ DigitsAt(s, SkipSpace(s, i + 1), n)
       THEN LET q == SkipSpace(s, i + 1)
            IN <<SubSeq(s, q, q + n - 1)>> \o FindAllAfter(s, q + n, mark, n)
       ELSE FindAllAfter(s, i + 1, mark, n)

\* comma_full_re = ,\s*(\d{6})
CommaNums(remainder) == FindAllAfter(remainder, 1, ",", 6)
\* dash_suffix_re = -\s*(\d{3})
DashSuffixes(remainder) == FindAllAfter(remainder, 1, "-", 3)

\* the index of the first c at or after i, 0 when there is none
RECURSIVE IndexFrom(_, _, _)
IndexFrom(s, c, i) ==
  IF i > Len(s) THEN 0 ELSE IF At(s, i) = c THEN i ELSE IndexFrom(s, c, i + 1)

RECURSIVE ParenSearch(_, _)
\* name_after_paren_re.search = \([^)]+\)\s*(.*)$ : the leftmost match from
\* index i on, as the index of its closing parenthesis; 0 when none matches
ParenSearch(t, i) ==
  IF i > Len(t) THEN 0
  ELSE IF At(t, i) = "(" /\ IndexFrom(t, ")", i + 1) > i + 1
       THEN IndexFrom(t, ")", i + 1)
       ELSE ParenSearch(t, i + 1)

RECURSIVE TrailingNumberStart(_, _)
\* trailing_paren_number_re = \(\d+\)\s*$ : the index where the leftmost
\* match from i on starts, 0 when none matches
TrailingNumberStart(s, i) ==
  IF i > Len(s) THEN 0
  ELSE LET close == IndexFrom(s, ")", i + 1)
       IN IF /\ At(s, i) = "("
             /\ close > i + 1
             /\ \A k \in (i + 1)..(close - 1) : IsDigit(At(s, k))
             /\ \A k \in (close + 1)..Len(s) : IsSpace(At(s, k))
          THEN i
          ELSE TrailingNumberStart(s, i + 1)

\* trailing_paren_number_re.sub("", s)
DropTrailingNumber(s) ==
  LET p == TrailingNumberStart(s, 1) IN IF p = 0 THEN s ELSE SubSeq(s, 1, p - 1)

\* the text the job name is derived from: group 1 of name_after_paren_re
NameAfterFirstParen(t) ==
  LET close == ParenSearch(t, 1)
  IN IF close = 0 THEN t ELSE Strip(SubSeq(t, close + 1, Len(t)))

\* a variant that searches for the last parenthesized group instead
NameAfterLastParen(t) ==
  LET closes == {q \in 1..Len(t) : \E p \in 1..q : ParenSearch(t, p) = q}
  IN IF closes = {} THEN t
     ELSE Strip(SubSeq(t, (CHOOSE q \in closes : \A r \in closes : r <= q) + 1, Len(t)))

JobNameSource(t) == NameAfterFirstParen(t)

JobName(t) == Strip(DropTrailingNumber(JobNameSource(t)))

PrefixDash(base_num, suffixes) ==
  [k \in 1..Len(suffixes) |-> SubSeq(base_num, 1, 3) \o suffixes[k]]

JobNumbers(t) ==
  LET i == BaseStart(t)
      base_num == SubSeq(t, i, i + 5)
      remainder == SubSeq(t, i + 6, Len(t))
  IN Dedup(<<base_num>> \o CommaNums(remainder)
             \o PrefixDash(base_num, DashSuffixes(remainder)), <<>>)

\* a variant whose fallback row keeps the title untrimmed
parse_folder_multi_untrimmed(ttl) ==
  IF ttl = "" THEN <<>>
  ELSE LET t == Strip(ttl)
       IN IF BaseStart(t) = 0 THEN <<[job_number |-> "", job_name |-> ttl]>>
          ELSE LET nums == JobNumbers(t)
               IN [k \in 1..Len(nums) |->
                     [job_number |-> nums[k], job_name |-> JobName(t)]]

parse_folder_multi(ttl) ==
  IF ttl = "" THEN <<>>
  ELSE LET t == Strip(ttl)
       IN IF BaseStart(t) = 0 THEN <<[job_number |-> "", job_name |-> t]>>
          ELSE LET nums == JobNumbers(t)
               IN [k \in 1..Len(nums) |->
                     [job_number |-> nums[k], job_name |-> JobName(t)]]

(***************************************************************************)
(* Date helpers and pick_best_iso                                          *)
(***************************************************************************)
DigitChars == <<"0","1","2","3","4","5","6","7","8","9">>
DigitVal(c) == (CHOOSE n \in 1..10 : DigitChars[n] = c) - 1

RECURSIVE NumberOf(_)
\* int() of a run of digits
NumberOf(ds) ==
  IF ds = "" THEN 0 ELSE 10 * NumberOf(SubSeq(ds, 1, Len(ds) - 1)) + DigitVal(At(ds, Len(ds)))

RECURSIVE Padded(_, _)
\* n written with w digits, zero-padded
Padded(n, w) ==
  IF w = 0 THEN "" ELSE Append(Padded(n \div 10, w - 1), DigitChars[(n % 10) + 1])

\* what pd.to_datetime(.., errors="coerce") yields for one element, then
\* .date(): <<year, month, day>> of a YYYY-MM-DD text, and NaT for other text
NaT == <<>>
ParseIsoDate(s) ==
  IF /\ Len(s) = 10 /\ At(s, 5) = "-" /\ At(s, 8) = "-"
     /\ DigitsAt(s, 1, 4) /\ DigitsAt(s, 6, 2) /\ DigitsAt(s, 9, 2)
  THEN <<NumberOf(SubSeq(s, 1, 4)), NumberOf(SubSeq(s, 6, 7)), NumberOf(SubSeq(s, 9, 10))>>
  ELSE NaT

\* date.isoformat()
IsoFormat(d) == Padded(d[1], 4) \o "-" \o Padded(d[2], 2) \o "-" \o Padded(d[3], 2)

\* a <= b on datetime.date values
DateLE(a, b) ==
  \/ a[1] < b[1]
  \/ a[1] = b[1] /\ a[2] < b[2]
  \/ a[1] = b[1] /\ a[2] = b[2] /\ a[3] <= b[3]

MinDate(S) == CHOOSE d \in S : \A e \in S : DateLE(d, e)
MaxDate(S) == CHOOSE d \in S : \A e \in S : DateLE(e, d)

\* a variant that takes the latest of the future dates
pick_latest_future(pool, now) ==
  IF pool = <<>> THEN ""
  ELSE LET dates == {ParseIsoDate(pool[k]) : k \in 1..Len(pool)} \ {NaT}
           future == {d \in dates : DateLE(now, d)}
       IN IF dates = {} THEN ""
          ELSE IsoFormat(IF future /= {} THEN MaxDate(future) ELSE MaxDate(dates))

\* the inner function pick(pool) of pick_best_iso; now is its `today`
pick(pool, now) ==
  IF pool = <<>> THEN ""
  ELSE LET dates == {ParseIsoDate(pool[k]) : k \in 1..Len(pool)} \ {NaT}
           future == {d \in dates : DateLE(now, d)}
       IN IF dates = {} THEN ""
          ELSE IsoFormat(IF future /= {} THEN MinDate(future) ELSE MaxDate(dates))

IsOpenCandidate(c) == c[2]
IsoOf(cs) == [k \in 1..Len(cs) |-> cs[k][1]]

\* candidates: a sequence of <<iso_date, is_open>>
pick_best_iso(cs, now) ==
  IF cs = <<>> THEN ""
  ELSE LET open_pool == IsoOf(SelectSeq(cs, IsOpenCandidate))
           first == pick(open_pool, now)
       IN IF first /= "" THEN first ELSE pick(IsoOf(cs), now)

(***************************************************************************)
(* The candidate lists and clock readings pick_best_iso is applied to      *)
(***************************************************************************)
MaxCandidates == 3
MaxLists == 2
MaxTasks == 2
ScanTodays == { <<2025, 3, 1>> }

IsoDates == { "2024-01-01", "2025-01-01",
              "2025-06-01", "2099-01-01" }
Todays == { <<2025, 3, 1>>, <<2025, 6, 1>>, <<2023, 12, 31>>, <<2099, 1, 2>> }
CandidateLists == SeqsUpTo(IsoDates \X BOOLEAN, MaxCandidates)

InitPick ==
  /\ candidates \in CandidateLists
  /\ today \in Todays
  /\ chosen = ""
  /\ picked = FALSE
  /\ ParseIdle
  /\ RowsIdle
  /\ ScanIdle
  /\ RunIdle

\* one call of pick_best_iso(candidates) with the clock reading `today`
PickBest ==
  /\ ~picked
  /\ chosen' = pick_best_iso(candidates, today)
  /\ picked' = TRUE
  /\ UNCHANGED <<candidates, today, parseVars, rowVars, scanVars, runVars, httpVars>>

NextPick == PickBest

SpecPick == InitPick /\ [][NextPick]_vars

(***************************************************************************)
(* Folder titles the parser is applied to: every concatenation of at most  *)
(* MaxTitleParts fragments                                                 *)
(***************************************************************************)
MaxTitleParts == 4

TitleParts ==
  { " ", "123456", ", 123789", "-789", "- 456", "(A)", "(2)", "x" }

Titles == {Concat(ps) : ps \in SeqsUpTo(TitleParts, MaxTitleParts)}

InitParse ==
  /\ title \in Titles
  /\ jobs = <<>>
  /\ parsed = FALSE
  /\ PickIdle
  /\ RowsIdle
  /\ ScanIdle
  /\ RunIdle

\* one call of parse_folder_multi(title)
Parse ==
  /\ ~parsed
  /\ jobs' = parse_folder_multi(title)
  /\ parsed' = TRUE
  /\ UNCHANGED <<title, pickVars, rowVars, scanVars, runVars, httpVars>>

NextParse == Parse

SpecParse == InitParse /\ [][NextParse]_vars

(***************************************************************************)
(* Properties of parse_folder_multi (checked under SpecParse)              *)
(***************************************************************************)
\* n is s without its leading and trailing whitespace
IsTrimOf(n, s) ==
  \E i \in 1..(Len(s) + 1), j \in 0..Len(s) :
    /\ n = SubSeq(s, i, j)
    /\ \A k \in 1..(i - 1) : IsSpace(At(s, k))
    /\ \A k \in (j + 1)..Len(s) : IsSpace(At(s, k))
    /\ n /= "" => ~IsSpace(At(n, 1)) /\ ~IsSpace(At(n, Len(n)))

\* s from its first to its last character that is not whitespace
TrimOf(s) ==
  LET inked == {k \in 1..Len(s) : ~IsSpace(At(s, k))}
  IN IF inked = {} THEN ""
     ELSE SubSeq(s, CHOOSE a \in inked : \A b \in inked : a <= b,
                    CHOOSE a \in inked : \A b \in inked : b <= a)

\* the title, ignoring leading whitespace, begins with six digits
StartsWithSixDigits(s) ==
  \E i \in 1..(Len(s) + 1) : (\A k \in 1..(i - 1) : IsSpace(At(s, k))) /\ DigitsAt(s, i, 6)

RECURSIVE Ascending(_)
\* the elements of a finite set of integers in ascending order
Ascending(S) ==
  IF S = {} THEN <<>>
  ELSE LET m == CHOOSE x \in S : \A y \in S : x <= y
       IN <<m>> \o Ascending(S \ {m})

\* the indexes of the marks of s that n digits follow (after optional
\* whitespace); with exact, only where no further digit follows them
MarkedAt(s, mark, n, exact) ==
  {p \in 1..Len(s) :
     LET q == SkipSpace(s, p + 1)
     IN /\ At(s, p) = mark
        /\ DigitsAt(s, q, n)
        /\ exact => ~(q + n <= Len(s) /\ IsDigit(At(s, q + n)))}

DigitsAfter(s, ps, n) ==
  [k \in 1..Len(ps) |-> LET q == SkipSpace(s, ps[k] + 1) IN SubSeq(s, q, q + n - 1)]

JobNumberList == [k \in 1..Len(jobs) |-> jobs[k].job_number]

\* the job numbers the title stands for: the base number, the six digits after
\* each comma, and the first three digits of the base number joined with the
\* three digits after each hyphen that `exact`ly three digits follow
NumbersOfTitle(exact) ==
  LET t == TrimOf(title)
      base == SubSeq(t, 1, 6)
      rem == SubSeq(t, 7, Len(t))
      commas == DigitsAfter(rem, Ascending(MarkedAt(rem, ",", 6, FALSE)), 6)
      dashes == DigitsAfter(rem, Ascending(MarkedAt(rem, "-", 3, exact)), 3)
  IN Dedup(<<base>> \o commas \o [k \in 1..Len(dashes) |-> SubSeq(base, 1, 3) \o dashes[k]],
           <<>>)

\* C3: for a title that begins with six digits the job numbers are the base
\* number, then each six-digit number after a comma, then the number made of
\* the base number's first three digits and the suffix of each hyphen followed
\* by exactly three digits, without duplicates and in this order; the list
\* starts with the base number and every pair carries the same job name.
C3_NumbersOfTitle ==
  (parsed /\ StartsWithSixDigits(title)) =>
    /\ JobNumberList = NumbersOfTitle(TRUE)
    /\ \A a, b \in 1..Len(jobs) : a /= b => jobs[a].job_number /= jobs[b].job_number
    /\ jobs /= <<>> /\ jobs[1].job_number = SubSeq(TrimOf(title), 1, 6)
    /\ \A a, b \in 1..Len(jobs) : jobs[a].job_name = jobs[b].job_name

FallbackRow(s) ==
  /\ Len(jobs) = 1
  /\ jobs[1].job_number = ""
  /\ IsTrimOf(jobs[1].job_name, s)

\* C4 (as claimed): every title that does not start with six digits, the empty
\* title included, yields exactly one pair: empty job number, trimmed title.
C4_OneRowAlways ==
  (parsed /\ ~StartsWithSixDigits(title)) => FallbackRow(title)

\* C4 (amended): every non-empty title that does not start with six digits
\* yields exactly one pair, with an empty job number and the trimmed title as
\* job name; the empty title yields no pair at all.
C4_OneRowUnlessEmpty ==
  parsed =>
    /\ (title /= "" /\ ~StartsWithSixDigits(title)) => FallbackRow(title)
    /\ title = "" => jobs = <<>>

\* a title with surrounding whitespace and no leading number has been parsed
C4_Witness ==
  /\ parsed
  /\ Len(title) > 2 /\ IsSpace(At(title, 1)) /\ IsSpace(At(title, Len(title)))
  /\ ~StartsWithSixDigits(title)
  /\ Len(jobs) = 1 /\ jobs[1].job_name /= "" /\ jobs[1].job_name /= title

\* the indexes of the closing parentheses of the parenthesized groups "(...)"
\* with at least one character between the parentheses
GroupCloses(t) ==
  {q \in 1..Len(t) :
     /\ At(t, q) = ")"
     /\ \E p \in 1..(q - 2) : At(t, p) = "(" /\ \A k \in (p + 1)..(q - 1) : At(t, k) /= ")"}

\* s without a "(digits)" group at its very end
WithoutNumberSuffix(s) ==
  LET starts == {p \in 1..Len(s) :
                   \E q \in (p + 2)..Len(s) :
                     /\ At(s, p) = "(" /\ At(s, q) = ")"
                     /\ \A k \in (p + 1)..(q - 1) : IsDigit(At(s, k))
                     /\ \A k \in (q + 1)..Len(s) : IsSpace(At(s, k))}
  IN IF starts = {} THEN s
     ELSE SubSeq(s, 1, (CHOOSE p \in starts : \A r \in starts : p <= r) - 1)

\* the job name derived from the text after the group that closes at `close`
NameAfterGroup(t, close) == TrimOf(WithoutNumberSuffix(TrimOf(SubSeq(t, close + 1, Len(t)))))

FirstOf(S) == CHOOSE x \in S : \A y \in S : x <= y
LastOf(S) == CHOOSE x \in S : \A y \in S : y <= x

NameIs(close(_)) ==
  (parsed /\ StartsWithSixDigits(title)) =>
    LET t == TrimOf(title)
        expected == IF GroupCloses(t) = {} THEN TrimOf(WithoutNumberSuffix(t))
                    ELSE NameAfterGroup(t, close(GroupCloses(t)))
    IN jobs /= <<>> /\ \A k \in 1..Len(jobs) : jobs[k].job_name = expected

\* C5 (as claimed): the job name is the text after the LAST parenthesized
\* group (the whole title when there is none), trimmed, with a trailing
\* "(number)" removed.
C5_NameAfterLastGroup == NameIs(LastOf)

\* C5 (amended): the job name is the text after the FIRST parenthesized group
\* (the whole title when there is none), trimmed, with a trailing "(number)"
\* removed.
C5_NameAfterFirstGroup == NameIs(FirstOf)

\* a numbered title with two parenthesized groups and text between them
C5_Witness ==
  /\ parsed /\ StartsWithSixDigits(title)
  /\ LET t == TrimOf(title)
     IN /\ Cardinality(GroupCloses(t)) = 2
        /\ NameAfterGroup(t, FirstOf(GroupCloses(t))) /= NameAfterGroup(t, LastOf(GroupCloses(t)))
        /\ jobs /= <<>> /\ jobs[1].job_name = NameAfterGroup(t, FirstOf(GroupCloses(t)))

(***************************************************************************)
(* Properties of pick_best_iso (checked under SpecPick)                    *)
(***************************************************************************)
\* the calendar order of YYYY-MM-DD texts and of the clock reading, as a number
IsoKey(s) ==
  LET v(k) == CHOOSE n \in 0..9 : DigitChars[n + 1] = At(s, k)
  IN   10000000 * v(1) + 1000000 * v(2) + 100000 * v(3) + 10000 * v(4)
     + 1000 * v(6) + 100 * v(7) + 10 * v(9) + v(10)
ClockKey(d) == 10000 * d[1] + 100 * d[2] + d[3]

\* r is what the policy picks from the set of dates `pool`
Picks(r, pool, now) ==
  LET future == {d \in pool : IsoKey(d) >= ClockKey(now)}
  IN /\ r \in pool
     /\ future /= {} => r \in future /\ \A d \in future : IsoKey(r) <= IsoKey(d)
     /\ future = {} => \A d \in pool : IsoKey(d) <= IsoKey(r)

\* r is what the policy reports for the candidate list cs
Selects(r, cs, now) ==
  LET all == {cs[k][1] : k \in 1..Len(cs)}
      open == {cs[k][1] : k \in {j \in 1..Len(cs) : cs[j][2]}}
  IN IF cs = <<>> THEN r = ""
     ELSE Picks(r, IF open /= {} THEN open ELSE all, now)

Example1 == << <<"2025-01-01", FALSE>>,
               <<"2025-06-01", TRUE>>,
               <<"2099-01-01", TRUE>> >>
Example2 == << <<"2024-01-01", TRUE>> >>

\* C1: pick_best_iso returns the empty string for an empty list; otherwise it
\* returns pick(open dates) when a candidate is open and pick(all dates) when
\* none is, pick being the earliest date on or after today, else the latest
\* date. With today = 2025-03-01 the two examples give 2025-06-01 and
\* 2024-01-01.
C1_SelectionPolicy ==
  picked =>
    /\ Selects(chosen, candidates, today)
    /\ (today = <<2025, 3, 1>> /\ candidates = Example1) =>
         chosen = "2025-06-01"
    /\ (today = <<2025, 3, 1>> /\ candidates = Example2) =>
         chosen = "2024-01-01"

\* the first example has been evaluated: a closed past date, two open future ones
C1_Witness ==
  /\ picked /\ today = <<2025, 3, 1>> /\ candidates = Example1
  /\ chosen = "2025-06-01"

(***************************************************************************)
(* The row builder of the run block: the loop over the folders, the        *)
(* placeholder filter and the final sort                                   *)
(***************************************************************************)
\* the characters of the model in code point order
CodePointOrder ==
  "\t (),-/0123456789:ABCDEFGHIJKLMNOPQRSTUVWXYZ_abcdefghijklmnopqrstuvwxyz"
CodePoint(c) == CHOOSE n \in 1..Len(CodePointOrder) : At(CodePointOrder, n) = c

RECURSIVE StrLess(_, _)
\* a < b on str values
StrLess(a, b) ==
  IF b = "" THEN FALSE
  ELSE IF a = "" THEN TRUE
  ELSE IF Head(a) = Head(b) THEN StrLess(Tail(a), Tail(b))
  ELSE CodePoint(Head(a)) < CodePoint(Head(b))

\* the order sort_values(["Job Number", "Job Name"]) puts two rows of text in
RowLess(a, b) ==
  \/ StrLess(a.job_number, b.job_number)
  \/ a.job_number = b.job_number /\ StrLess(a.job_name, b.job_name)

RECURSIVE InsertRow(_, _)
\* r put into the sorted rs, after the rows it does not precede
InsertRow(rs, r) ==
  IF rs = <<>> THEN <<r>>
  ELSE IF RowLess(r, Head(rs)) THEN <<r>> \o rs
  ELSE <<Head(rs)>> \o InsertRow(Tail(rs), r)

RECURSIVE SortValues(_)
\* df.sort_values(["Job Number", "Job Name"], na_position="last"): no cell is
\* NA (every cell is a str), so na_position moves nothing; the sort is stable
SortValues(rs) ==
  IF rs = <<>> THEN <<>>
  ELSE InsertRow(SortValues(SubSeq(rs, 1, Len(rs) - 1)), rs[Len(rs)])

PLACEHOLDER == "PROJECT LIST TEMPLATE"
\* df[df["Job Name"].str.upper() != "PROJECT LIST TEMPLATE"]
IsRealRow(r) == Upper(r.job_name) /= PLACEHOLDER
DropPlaceholders(rs) == SelectSeq(rs, IsRealRow)

\* the rows one folder adds: one per pair of parse_folder_multi. The code and
\* date columns (from scan_folder_metadata) are not read by the filter or the
\* sort and are left out of the row.
FolderRows(fid, ttl) ==
  LET js == parse_folder_multi(ttl)
  IN [k \in 1..Len(js) |->
        [job_number |-> js[k].job_number, job_name |-> js[k].job_name,
         folder_id |-> fid, folder_title |-> ttl]]

MaxFolders == 3

FolderTitles ==
  { "", "Fund", "123456 Fund", "123456, 123789 Alpha",
    "123789-456 (A) Fund", "Project List Template" }

InitRows ==
  /\ folders \in SeqsUpTo(FolderTitles, MaxFolders)
  /\ fidx = 1
  /\ rows = <<>>
  /\ df = <<>>
  /\ built = "rows"
  /\ ParseIdle
  /\ PickIdle
  /\ ScanIdle
  /\ RunIdle

\* one iteration of "for f in folders"
AddFolderRows ==
  /\ built = "rows"
  /\ fidx <= Len(folders)
  /\ rows' = rows \o FolderRows(fidx, folders[fidx])
  /\ fidx' = fidx + 1
  /\ UNCHANGED <<folders, df, built, parseVars, pickVars, scanVars, runVars, httpVars>>

\* pd.DataFrame(rows), the placeholder filter and the sort. A frame built from
\* no rows has no "Job Name" column: df["Job Name"] raises KeyError, which the
\* run block reports as an unexpected error.
BuildFrame ==
  /\ built = "rows"
  /\ fidx > Len(folders)
  /\ IF rows = <<>>
     THEN df' = <<>> /\ built' = "error"
     ELSE df' = SortValues(DropPlaceholders(rows)) /\ built' = "ok"
  /\ UNCHANGED <<folders, fidx, rows, parseVars, pickVars, scanVars, runVars, httpVars>>

NextRows == AddFolderRows \/ BuildFrame

SpecRows == InitRows /\ [][NextRows]_vars

(***************************************************************************)
(* Properties of the final row set (checked under SpecRows)                *)
(***************************************************************************)
\* C8: in the final row set every row with an empty job_number comes after
\* every row with a job_number; rows with a job_number ascend by job_number
\* and, for equal job_number, by job_name.
C8_EmptyNumbersLast ==
  built = "ok" =>
    \A i, j \in 1..Len(df) :
      /\ (df[i].job_number = "" /\ df[j].job_number /= "") => j < i
      /\ (i < j /\ df[i].job_number /= "" /\ df[j].job_number /= "") =>
           ~RowLess(df[j], df[i])

\* the part of C8 the code does satisfy: the rows ascend by job_number, then
\* by job_name (the empty job_number, being the least string, comes first)
C8_Ascending ==
  built = "ok" => \A i, j \in 1..Len(df) : i < j => ~RowLess(df[j], df[i])

(***************************************************************************)
(* Code extractors: extract_mc_from_text and find_all_brd                  *)
(***************************************************************************)
WordCharAt(s, i) == i >= 1 /\ i <= Len(s) /\ IsWordChar(At(s, i))
\* \b just before index i
BoundaryAt(s, i) == WordCharAt(s, i - 1) /= WordCharAt(s, i)
\* the literal w (given in upper case) stands at index i, whatever the case
LiteralAt(s, i, w) ==
  /\ i >= 1 /\ i + Len(w) - 1 <= Len(s)
  /\ \A k \in 1..Len(w) : UpperChar(At(s, i + k - 1)) = At(w, k)

\* mc_re = \b(?:MC\d{4}|MCA\d{3})\b matches at index i (either way six characters)
McAt(s, i) ==
  /\ BoundaryAt(s, i)
  /\ \/ LiteralAt(s, i, "MC") /\ DigitsAt(s, i + 2, 4)
     \/ LiteralAt(s, i, "MCA") /\ DigitsAt(s, i + 3, 3)
  /\ BoundaryAt(s, i + 6)

RECURSIVE McSearch(_, _)
\* mc_re.search: the index of the leftmost match from i on, 0 when there is none
McSearch(s, i) ==
  IF i > Len(s) THEN 0 ELSE IF McAt(s, i) THEN i ELSE McSearch(s, i + 1)

extract_mc_from_text(text) ==
  IF text = "" THEN ""
  ELSE LET i == McSearch(text, 1)
       IN IF i = 0 THEN "" ELSE Upper(SubSeq(text, i, i + 5))

\* brd_re = \b([SPZ]\d{5})\b matches at index i
BrdAt(s, i) ==
  /\ BoundaryAt(s, i)
  /\ i <= Len(s) /\ UpperChar(At(s, i)) \in {"S", "P", "Z"}
  /\ DigitsAt(s, i + 1, 5)
  /\ BoundaryAt(s, i + 6)

RECURSIVE BrdFrom(_, _)
\* brd_re.finditer from index i on, each match uppercased
BrdFrom(s, i) ==
  IF i > Len(s) THEN <<>>
  ELSE IF BrdAt(s, i) THEN <<Upper(SubSeq(s, i, i + 5))>> \o BrdFrom(s, i + 6)
  ELSE BrdFrom(s, i + 1)

find_all_brd(text) == IF text = "" THEN <<>> ELSE BrdFrom(text, 1)

(***************************************************************************)
(* Label matchers: is_exact_label and is_label_task_strict                 *)
(***************************************************************************)
RECORD == "RECORD"
MEETING == "MEETING"
DATE == "DATE"
LabelWord(kind) == IF kind = "record" THEN RECORD ELSE MEETING

\* EXACT_RECORD / EXACT_MEETING = ^\s*<LABEL>\s*DATE\s*$
is_exact_label(ttl, kind) ==
  IF ttl = "" THEN FALSE
  ELSE LET i == SkipSpace(ttl, 1)
           j == SkipSpace(ttl, i + Len(LabelWord(kind)))
       IN /\ LiteralAt(ttl, i, LabelWord(kind))
          /\ LiteralAt(ttl, j, DATE)
          /\ SkipSpace(ttl, j + 4) = Len(ttl) + 1

BlockerWords ==
  { "RANGE", "WINDOW", "THRU", "THROUGH", "TO", "BETWEEN", "FROM" }
BadTailWords ==
  { "FILE", "FILES", "DOC", "DOCS", "PDF", "UPLOAD", "LINK",
    "DRAFT", "CHECKLIST", "NOTE", "NOTES", "TEMPLATE", "PACKAGE",
    "PKG", "MATERIAL", "MATERIALS", "SUBMISSION", "REPORT",
    "STATUS", "EMAIL" }
Placeholders == { "TBD", "TBA", "NA", "N/A", "ASAP" }

\* \b(w1|w2|...)\b .search(s) finds a match
HasWord(s, ws) ==
  \E i \in 1..Len(s) :
    BoundaryAt(s, i) /\ \E w \in ws : LiteralAt(s, i, w) /\ BoundaryAt(s, i + Len(w))

\* BLOCKERS_ANY.search
HasBlocker(s) == HasWord(s, BlockerWords)
\* a variant that looks for no range word
HasNoBlocker(s) == FALSE
BLOCKERS_ANY(s) == HasBlocker(s)
\* BAD_TAIL_WORDS.search
BAD_TAIL_WORDS(s) == HasWord(s, BadTailWords)

\* RECORD_ANY / MEETING_ANY = \b<LABEL>\s*DATE\b matches at index i: the index
\* just after the match (m.end() + 1 in 1-based indexing), 0 when it does not
LabelEndAt(s, i, kind) ==
  LET j == SkipSpace(s, i + Len(LabelWord(kind)))
  IN IF /\ BoundaryAt(s, i)
        /\ LiteralAt(s, i, LabelWord(kind))
        /\ LiteralAt(s, j, DATE)
        /\ BoundaryAt(s, j + 4)
     THEN j + 4 ELSE 0

RECURSIVE LabelSearch(_, _, _)
\* pat.search(title): the end of the leftmost match from i on, 0 when none
LabelSearch(s, i, kind) ==
  IF i > Len(s) THEN 0
  ELSE IF LabelEndAt(s, i, kind) /= 0 THEN LabelEndAt(s, i, kind)
  ELSE LabelSearch(s, i + 1, kind)

\* the separators _SEP_STRIP removes (the modelled titles hold no en or em dash)
IsSeparator(c) == IsSpace(c) \/ c \in {":", "-"}
RECURSIVE SkipSeparators(_, _)
SkipSeparators(s, i) ==
  IF i <= Len(s) /\ IsSeparator(At(s, i)) THEN SkipSeparators(s, i + 1) ELSE i
\* _SEP_STRIP.sub("", s)
SepStrip(s) == SubSeq(s, SkipSeparators(s, 1), Len(s))

\* one to two digits, "/", one to two digits, "/", four digits
IsSlashDate(s) ==
  \E a \in 1..2, b \in 1..2 :
    /\ Len(s) = a + b + 6
    /\ DigitsAt(s, 1, a) /\ At(s, a + 1) = "/"
    /\ DigitsAt(s, a + 2, b) /\ At(s, a + b + 2) = "/"
    /\ DigitsAt(s, a + b + 3, 4)

\* not pd.isna(pd.to_datetime(tail, errors="coerce")), for the two numeric
\* date forms M/D/YYYY and YYYY-MM-DD; other text is taken as no date
ParsesAsDate(s) == IsSlashDate(s) \/ ParseIsoDate(s) /= NaT

\* is_label_task_strict (the definition in force: the later one, line 236)
is_label_task_strict(ttl, kind) ==
  IF ttl = "" THEN FALSE
  ELSE IF BLOCKERS_ANY(ttl) THEN FALSE
  ELSE LET e == LabelSearch(ttl, 1, kind)
           tail == Strip(SepStrip(SubSeq(ttl, e, Len(ttl))))
       IN IF e = 0 THEN FALSE
          ELSE IF tail = "" THEN TRUE
          ELSE IF BAD_TAIL_WORDS(tail) THEN FALSE
          ELSE IF ParsesAsDate(tail) THEN TRUE
          ELSE Upper(tail) \in Placeholders

(***************************************************************************)
(* iso_from_ms and status_is_open                                          *)
(***************************************************************************)
\* America/Los_Angeles: the daylight-saving periods of 2024-2026, as
\* [start, end) in seconds since the epoch; the offsets from UTC in seconds
DstPeriods ==
  { <<1710064800, 1730624400>>, <<1741514400, 1762074000>>, <<1772964000, 1793523600>> }
PstOffset == 28800
PdtOffset == 25200
UtcOffset(secs) ==
  IF \E q \in DstPeriods : q[1] <= secs /\ secs < q[2] THEN PdtOffset ELSE PstOffset

\* the calendar date of a day number (days since 1970-01-01)
CivilFromDays(days) ==
  LET z == days + 719468
      era == z \div 146097
      doe == z - era * 146097
      yoe == (doe - doe \div 1460 + doe \div 36524 - doe \div 146096) \div 365
      doy == doe - (365 * yoe + yoe \div 4 - yoe \div 100)
      mp == (5 * doy + 2) \div 153
      d == doy - (153 * mp + 2) \div 5 + 1
      m == IF mp < 10 THEN mp + 3 ELSE mp - 9
      y == yoe + era * 400 + (IF m <= 2 THEN 1 ELSE 0)
  IN <<y, m, d>>

None == ""
\* iso_from_ms: ms is the text of a number of milliseconds (as the API sends
\* it); the last three digits are the milliseconds within the second. None for
\* text that int() rejects.
iso_from_ms(ms) ==
  IF ms /= "" /\ DigitsAt(ms, 1, Len(ms))
  THEN LET secs == NumberOf(SubSeq(ms, 1, Len(ms) - 3))
       IN IsoFormat(CivilFromDays((secs - UtcOffset(secs)) \div 86400))
  ELSE None

LowerChar(c) == IF c \in UpperSet THEN LowerOf[c] ELSE c
\* str.lower()
RECURSIVE Lower(_)
Lower(s) == IF s = "" THEN "" ELSE LowerChar(Head(s)) \o Lower(Tail(s))

\* status_is_open: status_type is status.type, None when absent
status_is_open(status_type) ==
  Lower(IF status_type = None THEN "open" ELSE status_type) /= "closed"

(***************************************************************************)
(* scan_folder_metadata                                                    *)
(*                                                                         *)
(* lists is the answer of get_lists_in_folder (the list names); the tasks  *)
(* of the list being scanned arrive one by one from fetch_list_tasks. A    *)
(* task is [name, due_date, status_type, custom_fields]; a custom field    *)
(* value is [is_str, text]. visited records, in order, every list name,    *)
(* task and custom field value the loops have come to. The clock reading   *)
(* `today` is the one pick_best_iso takes at the end of the scan.          *)
(***************************************************************************)
\* a variant that appends every code, seen before or not
add_all_codes(accum, seen, codes) ==
  [accum |-> accum \o codes, seen |-> seen \cup {codes[k] : k \in 1..Len(codes)}]

RECURSIVE add_brd_codes(_, _, _)
\* add_brd_codes(codes) on the accumulator <<brd_accum, seen_codes>>
add_brd_codes(accum, seen, codes) ==
  IF codes = <<>> THEN [accum |-> accum, seen |-> seen]
  ELSE IF Head(codes) \in seen THEN add_brd_codes(accum, seen, Tail(codes))
  ELSE add_brd_codes(Append(accum, Head(codes)), seen \cup {Head(codes)}, Tail(codes))

\* "if not meta['mc_code']: mc = extract_mc_from_text(text); if mc: ..."
FirstMc(mc_code, text) ==
  IF mc_code = "" THEN extract_mc_from_text(text) ELSE mc_code

RECURSIVE Join(_, _)
\* sep.join(items)
Join(items, sep) ==
  IF items = <<>> THEN ""
  ELSE IF Len(items) = 1 THEN items[1]
  ELSE items[1] \o sep \o Join(Tail(items), sep)

\* a variant that pools the exact and the fuzzy candidates
ReportedDateOfAll(exact, fuzzy, now) == pick_best_iso(exact \o fuzzy, now)

\* pick_best_iso(exact) or pick_best_iso(fuzzy)
ReportedDate(exact, fuzzy, now) ==
  LET first == pick_best_iso(exact, now)
  IN IF first /= "" THEN first ELSE pick_best_iso(fuzzy, now)

\* the bucket a dated task adds its candidate to for one kind: "exact",
\* "fuzzy" or "none"
BucketOf(tname, kind) ==
  IF is_exact_label(tname, kind) THEN "exact"
  ELSE IF is_label_task_strict(tname, kind) THEN "fuzzy"
  ELSE "none"

InitScan(ListNames) ==
  /\ lists \in SeqsUpTo(ListNames, MaxLists)
  /\ phase = "names"
  /\ li = 1
  /\ task = NoTask
  /\ cfi = 1
  /\ meta = EmptyMeta
  /\ brd_accum = <<>>
  /\ seen_codes = {}
  /\ rec_exact = <<>> /\ rec_fuzzy = <<>> /\ mtg_exact = <<>> /\ mtg_fuzzy = <<>>
  /\ visited = <<>>
  /\ today \in ScanTodays
  /\ candidates = <<>> /\ chosen = "" /\ picked = TRUE
  /\ ParseIdle
  /\ RowsIdle
  /\ RunIdle

dateVars == <<rec_exact, rec_fuzzy, mtg_exact, mtg_fuzzy>>
otherVars == <<parseVars, pickVars, rowVars, runVars, httpVars>>

\* one iteration of the quick pass on the list names
ScanListName ==
  /\ phase = "names"
  /\ li <= Len(lists)
  /\ LET lname == lists[li]
         added == add_brd_codes(brd_accum, seen_codes, find_all_brd(lname))
     IN /\ meta' = [meta EXCEPT !.mc_code = FirstMc(meta.mc_code, lname)]
        /\ brd_accum' = added.accum
        /\ seen_codes' = added.seen
        /\ visited' = Append(visited, [kind |-> "list", text |-> lname, task |-> NoTask])
  /\ li' = li + 1
  /\ UNCHANGED <<lists, phase, task, cfi, dateVars, otherVars>>

\* the quick pass is over: the candidate buckets are set up and the loop over
\* the lists starts again for their tasks
StartTaskPass ==
  /\ phase = "names"
  /\ li > Len(lists)
  /\ phase' = "tasks"
  /\ li' = 1
  /\ rec_exact' = <<>> /\ rec_fuzzy' = <<>> /\ mtg_exact' = <<>> /\ mtg_fuzzy' = <<>>
  /\ UNCHANGED <<lists, task, cfi, meta, brd_accum, seen_codes, visited, otherVars>>

TasksVisited == Cardinality({k \in 1..Len(visited) : visited[k].kind = "task"})

\* the next task of the current list: its name is read for codes
ScanTaskName(Tasks) ==
  /\ phase = "tasks"
  /\ li <= Len(lists)
  /\ TasksVisited < MaxTasks
  /\ \E t \in Tasks :
       LET added == add_brd_codes(brd_accum, seen_codes, find_all_brd(t.name))
       IN /\ task' = t
          /\ brd_accum' = added.accum
          /\ seen_codes' = added.seen
          /\ visited' = Append(visited, [kind |-> "task", text |-> t.name, task |-> t])
  /\ phase' = "fields"
  /\ cfi' = 1
  /\ UNCHANGED <<lists, li, meta, dateVars, otherVars>>

\* one iteration of "for cf in t.get('custom_fields')"
ScanCustomField ==
  /\ phase = "fields"
  /\ cfi <= Len(task.custom_fields)
  /\ LET val == task.custom_fields[cfi]
         added == add_brd_codes(brd_accum, seen_codes, find_all_brd(val.text))
     IN /\ meta' = [meta EXCEPT !.mc_code =
                      IF val.is_str THEN FirstMc(meta.mc_code, val.text) ELSE @]
        /\ brd_accum' = IF val.is_str THEN added.accum ELSE brd_accum
        /\ seen_codes' = IF val.is_str THEN added.seen ELSE seen_codes
        /\ visited' = Append(visited,
                        [kind |-> IF val.is_str THEN "field" ELSE "other",
                         text |-> val.text, task |-> NoTask])
  /\ cfi' = cfi + 1
  /\ UNCHANGED <<lists, phase, li, task, dateVars, otherVars>>

AddTo(bucket, which, tname, kind, cand) ==
  IF BucketOf(tname, kind) = which THEN Append(bucket, cand) ELSE bucket

\* the rest of the loop body for the task: its due date becomes a candidate
ScanTaskDates ==
  /\ phase = "fields"
  /\ cfi > Len(task.custom_fields)
  /\ LET iso == iso_from_ms(task.due_date)
         cand == <<iso, status_is_open(task.status_type)>>
     IN IF task.due_date = None \/ iso = None
        THEN UNCHANGED dateVars
        ELSE /\ rec_exact' = AddTo(rec_exact, "exact", task.name, "record", cand)
             /\ rec_fuzzy' = AddTo(rec_fuzzy, "fuzzy", task.name, "record", cand)
             /\ mtg_exact' = AddTo(mtg_exact, "exact", task.name, "meeting", cand)
             /\ mtg_fuzzy' = AddTo(mtg_fuzzy, "fuzzy", task.name, "meeting", cand)
  /\ phase' = "tasks"
  /\ task' = NoTask
  /\ UNCHANGED <<lists, li, cfi, meta, brd_accum, seen_codes, visited, otherVars>>

\* fetch_list_tasks has no further task for the current list
NextList ==
  /\ phase = "tasks"
  /\ li <= Len(lists)
  /\ li' = li + 1
  /\ UNCHANGED <<lists, phase, task, cfi, meta, brd_accum, seen_codes, dateVars,
                 visited, otherVars>>

\* after the loops: the dates are picked and the codes joined
FinishScan ==
  /\ phase = "tasks"
  /\ li > Len(lists)
  /\ meta' = [meta EXCEPT
                !.record_date = ReportedDate(rec_exact, rec_fuzzy, today),
                !.meeting_date = ReportedDate(mtg_exact, mtg_fuzzy, today),
                !.brd_code = Join(brd_accum, ", ")]
  /\ phase' = "done"
  /\ UNCHANGED <<lists, li, task, cfi, brd_accum, seen_codes, dateVars, visited,
                 otherVars>>

NextScan(Tasks) ==
  \/ ScanListName
  \/ StartTaskPass
  \/ ScanTaskName(Tasks)
  \/ ScanCustomField
  \/ ScanTaskDates
  \/ NextList
  \/ FinishScan

Str(text) == [is_str |-> TRUE, text |-> text]
\* a custom field value that is no string (a number, a list, null, ...)
NotStr == [is_str |-> FALSE, text |-> ""]

\* Scans of folders whose texts hold codes, and whose tasks have no due date
CodeListNames == { "Proxy", "2025 mc1234 S12345", "P99999, s12345" }
CodeTasks ==
  [ name : { "Job MCA567 z00001", "S12345 p99999" },
    due_date : { None },
    status_type : { None },
    custom_fields : { <<>>, <<Str("MC7777/S12345")>>,
                      <<NotStr, Str("z00001 Z00002")>> } ]

SpecScanCodes == InitScan(CodeListNames) /\ [][NextScan(CodeTasks)]_vars

\* Scans of folders whose tasks are date labels, with no codes anywhere
DateListNames == { "Proxy" }
PastDue == "1740815999000"      \* 2025-02-28 in USER_TZ
FutureDue == "1748746800000"    \* 2025-05-31 in USER_TZ
\* (the status of a task with no due date is never read: one status is enough)
Dated(Tasks) == {t \in Tasks : t.due_date = None => t.status_type = "open"}
DateTasks ==
  Dated([ name : { " record date ", "Record Date: 4/1/2025",
                   "MEETING DATE", "Meeting Date - TBD" },
          due_date : { None, PastDue, FutureDue },
          status_type : { "open", "closed" },
          custom_fields : { <<Str("4/1/2025")>> } ])

SpecScanDates == InitScan(DateListNames) /\ [][NextScan(DateTasks)]_vars

\* Scans of folders whose tasks are labels and titles that name a range
LabelTasks ==
  Dated([ name : { " record date ", "From Record Date", "Record Date Range",
                   "Meeting Date", "meeting date thru 4/2/2025" },
          due_date : { None, FutureDue },
          status_type : { "open", "closed" },
          custom_fields : { <<Str("4/1/2025")>> } ])

SpecScanLabels == InitScan(DateListNames) /\ [][NextScan(LabelTasks)]_vars

(***************************************************************************)
(* Properties of scan_folder_metadata: the codes (checked under            *)
(* SpecScanCodes)                                                          *)
(***************************************************************************)
IsCodeText(v) == v.kind \in {"list", "task", "field"}
\* the texts the code scan is to read, in the order the loops came to them:
\* list names, then per task its name and its string custom field values
ScannedTexts ==
  LET vs == SelectSeq(visited, IsCodeText) IN [k \in 1..Len(vs) |-> vs[k].text]

RECURSIVE Flatten(_)
Flatten(ss) == IF ss = <<>> THEN <<>> ELSE Head(ss) \o Flatten(Tail(ss))

\* every S/P/Z code of the scanned texts, in order of appearance
CodesFound == Flatten([k \in 1..Len(ScannedTexts) |-> find_all_brd(ScannedTexts[k])])

\* the distinct elements of xs in the order of their first occurrence
FirstSeen(xs) ==
  LET firsts == Ascending({k \in 1..Len(xs) : \A j \in 1..(k - 1) : xs[j] /= xs[k]})
  IN [i \in 1..Len(firsts) |-> xs[firsts[i]]]

IsPrefix(xs, ys) == Len(xs) <= Len(ys) /\ SubSeq(ys, 1, Len(xs)) = xs

\* text is the items separated by ", "
CommaSeparated(text, items) ==
  text = Concat([k \in 1..Len(items) |-> IF k = 1 THEN items[k] ELSE ", " \o items[k]])

C7_Accumulator ==
  /\ \A a, b \in 1..Len(brd_accum) : a /= b => brd_accum[a] /= brd_accum[b]
  /\ brd_accum = FirstSeen(CodesFound)
  /\ phase = "done" => CommaSeparated(meta.brd_code, brd_accum)
  /\ phase /= "done" => meta.brd_code = ""

\* C7: at every point of the scan brd_accum holds no code twice and holds
\* exactly the distinct S/P/Z codes of the texts scanned so far (list names,
\* then per task its name and its string custom field values), in order of
\* first discovery; a step never removes or reorders the codes already there;
\* the reported brd_code is the codes joined with ", " (empty when there are
\* none).
C7_CodesInDiscoveryOrder ==
  []C7_Accumulator /\ [][IsPrefix(brd_accum, brd_accum')]_vars

\* a finished scan that met a code again, in a list name, a task name and a
\* custom field, and reports three codes or more
C7_Witness ==
  /\ phase = "done"
  /\ Len(brd_accum) >= 3 /\ Len(CodesFound) > Len(brd_accum)
  /\ \A k \in {"list", "task", "field"} :
       \E i \in 1..Len(visited) : visited[i].kind = k /\ find_all_brd(visited[i].text) /= <<>>
  /\ Len(meta.brd_code) = 8 * Len(brd_accum) - 2

\* the first MC code of the texts ts, "" when none holds one
FirstMcOf(ts) ==
  LET hits == {k \in 1..Len(ts) : extract_mc_from_text(ts[k]) /= ""}
  IN IF hits = {} THEN ""
     ELSE extract_mc_from_text(ts[CHOOSE k \in hits : \A j \in hits : k <= j])

\* C6: the MC code reported for a folder is the first MC####/MCA### match met
\* in the ordered scan of list names, task names and task custom field texts,
\* uppercased; it is empty only if none of those texts holds a match and is
\* never changed once set. (The first match of the texts scanned so far at
\* every point says both.)
C6_FirstMcOfAllTexts == meta.mc_code = FirstMcOf(ScannedTexts)

(***************************************************************************)
(* Properties of scan_folder_metadata: the dates (checked under            *)
(* SpecScanDates and SpecScanLabels)                                       *)
(***************************************************************************)
Kinds == {"record", "meeting"}
IsTaskEntry(v) == v.kind = "task"
\* the tasks the scan has come to, in order
ScannedTasks ==
  LET vs == SelectSeq(visited, IsTaskEntry) IN [k \in 1..Len(vs) |-> vs[k].task]

HasDueDate(t) == t.due_date /= None /\ iso_from_ms(t.due_date) /= None
CandidateOf(t) == <<iso_from_ms(t.due_date), status_is_open(t.status_type)>>

\* the scanned tasks that have a due date, each with its title and candidate
DatedTasks ==
  LET ts == ScannedTasks
      ks == Ascending({k \in 1..Len(ts) : HasDueDate(ts[k])})
  IN [i \in 1..Len(ks) |-> [name |-> ts[ks[i]].name, cand |-> CandidateOf(ts[ks[i]])]]

\* the candidates of the dated tasks ds whose title `accepts`
CandidatesOf(ds, kind, accepts(_, _)) ==
  LET ks == Ascending({k \in 1..Len(ds) : accepts(ds[k].name, kind)})
  IN [i \in 1..Len(ks) |-> ds[ks[i]].cand]

LabelMatcherAccepts(tname, kind) ==
  is_exact_label(tname, kind) \/ is_label_task_strict(tname, kind)
OnlyStrictAccepts(tname, kind) ==
  ~is_exact_label(tname, kind) /\ is_label_task_strict(tname, kind)

Reported(kind) == IF kind = "record" THEN meta.record_date ELSE meta.meeting_date
OpenDates(cs) == {cs[k][1] : k \in {j \in 1..Len(cs) : cs[j][2]}}

\* the reported date of `kind` is the policy's choice among cs, an open
\* candidate's date whenever cs has an open candidate
ReportsFrom(kind, cs) ==
  /\ Selects(Reported(kind), cs, today)
  /\ OpenDates(cs) /= {} => Reported(kind) \in OpenDates(cs)

\* C2: for each kind the reported date is the Date Selection Policy applied to
\* the candidates of ALL the scanned tasks that have a due date and a title the
\* Label Matcher accepts for the kind; whenever one of them is open the
\* reported date is the due date of an open task.
C2_PolicyOverAllAccepted ==
  phase = "done" =>
    LET ds == DatedTasks
    IN \A kind \in Kinds :
         ReportsFrom(kind, CandidatesOf(ds, kind, LabelMatcherAccepts))

\* the candidates the report is made from: those of the exact labels when
\* there is one, else those of the strictly matched titles
PreferredCandidates(ds, kind) ==
  LET exact == CandidatesOf(ds, kind, is_exact_label)
  IN IF exact /= <<>> THEN exact
     ELSE CandidatesOf(ds, kind, OnlyStrictAccepts)

\* C2: for each kind the reported date is the Date Selection Policy applied to
\* the candidates of the scanned tasks with a due date whose title is an exact
\* label of the kind when there is such a task, and otherwise to those of the
\* tasks with a due date whose title is_label_task_strict accepts; whenever a
\* task of the group used is open the reported date is the due date of an open
\* task of that group.
C2_PolicyOverPreferredBucket ==
  phase = "done" =>
    LET ds == DatedTasks
    IN \A kind \in Kinds : ReportsFrom(kind, PreferredCandidates(ds, kind))

\* a finished scan with a closed exact record label and an open strictly
\* matched one due on another day: the closed task's date is reported
C2_Witness ==
  /\ phase = "done"
  /\ LET exact == CandidatesOf(DatedTasks, "record", is_exact_label)
         fuzzy == CandidatesOf(DatedTasks, "record", OnlyStrictAccepts)
     IN /\ Len(exact) = 1 /\ ~exact[1][2]
        /\ Len(fuzzy) = 1 /\ fuzzy[1][2] /\ fuzzy[1][1] /= exact[1][1]
        /\ meta.record_date = exact[1][1]

\* w occurs in s as a whole word
WholeWordIn(s, w) ==
  \E i \in 1..(Len(s) - Len(w) + 1) :
    /\ SubSeq(s, i, i + Len(w) - 1) = w
    /\ i = 1 \/ ~IsWordChar(At(s, i - 1))
    /\ i + Len(w) > Len(s) \/ ~IsWordChar(At(s, i + Len(w)))
NamesARange(tname) ==
  LET upper == Upper(tname) IN \E w \in BlockerWords : WholeWordIn(upper, w)
LabelPhrase(kind) == IF kind = "record" THEN "RECORD DATE" ELSE "MEETING DATE"
IsLabelPhrase(tname, kind) == Upper(TrimOf(tname)) = LabelPhrase(kind)

\* the title of the task in hand
C10_Matchers ==
  phase = "fields" =>
    \A kind \in Kinds :
      /\ NamesARange(task.name) =>
           ~is_exact_label(task.name, kind) /\ ~is_label_task_strict(task.name, kind)
      /\ IsLabelPhrase(task.name, kind) => is_exact_label(task.name, kind)

\* the step that ends the loop body of the current task
C10_TaskStep ==
  (phase = "fields" /\ phase' = "tasks") =>
    /\ NamesARange(task.name) => UNCHANGED dateVars
    /\ (IsLabelPhrase(task.name, "record") /\ HasDueDate(task)) =>
          rec_exact' = Append(rec_exact, CandidateOf(task))
    /\ (IsLabelPhrase(task.name, "meeting") /\ HasDueDate(task)) =>
          mtg_exact' = Append(mtg_exact, CandidateOf(task))

\* C10: a title holding one of the words RANGE, WINDOW, THRU, THROUGH, TO,
\* BETWEEN, FROM as a whole word, in any case, is accepted neither as an exact
\* label nor by is_label_task_strict, for either kind, and the scan adds no
\* candidate to any bucket for such a task whatever its due date and status; a
\* title that is the label phrase, in any case and with whitespace around it,
\* is accepted (and a due date of such a task becomes an exact candidate).
C10_RangeTitlesRejected == []C10_Matchers /\ [][C10_TaskStep]_vars

\* a finished scan of two dated tasks, one naming a range and one titled with
\* the bare label phrase: the buckets hold the second task's candidate only
C10_Witness ==
  /\ phase = "done"
  /\ \E a, b \in 1..Len(ScannedTasks) :
       /\ NamesARange(ScannedTasks[a].name) /\ HasDueDate(ScannedTasks[a])
       /\ IsLabelPhrase(ScannedTasks[b].name, "record") /\ HasDueDate(ScannedTasks[b])
       /\ rec_exact = <<CandidateOf(ScannedTasks[b])>>
  /\ rec_fuzzy = <<>> /\ mtg_exact = <<>> /\ mtg_fuzzy = <<>>

(***************************************************************************)
(* get_json and the requests of the run block                              *)
(***************************************************************************)
MaxAttempts == 5
MaxRunFolders == 2
MaxRunLists == 2
MaxPages == 1
MaxJobs == 2
\* status codes requests.get may answer with
Statuses == {200, 429, 404, 500}

Min(a, b) == IF a <= b THEN a ELSE b
\* a pause that doubles without limit
backoff_uncapped(tries) == 2 ^ tries
\* the seconds backoff_sleep(attempt) sleeps
backoff_sleep(tries) == Min(10, 2 ^ tries)

\* auth_headers(token)
auth_headers == "Authorization"
Request(url, params) == [url |-> url, headers |-> auth_headers, params |-> params]
NoParams == ""
Page(n) == <<"page", n>>

\* get_json is entered for the request req
Call(req) ==
  /\ request' = req
  /\ attempt' = 0
  /\ http' = "send"
  /\ status' = 0
  /\ issued' = <<>>
  /\ pauses' = <<>>

InitRun ==
  /\ stage = "ready" /\ folders_left = 0 /\ lists_left = 0 /\ nrows = 0 /\ ui = <<>>
  /\ request = NoRequest /\ attempt = 0 /\ http = "none" /\ status = 0
  /\ issued = <<>> /\ pauses = <<>>
  /\ ParseIdle /\ PickIdle /\ RowsIdle /\ ScanIdle

restVars == <<parseVars, pickVars, rowVars, scanVars>>

\* "Build & Export" is pressed: get_workspaces makes the first request
PressRun ==
  /\ stage = "ready"
  /\ stage' = "team"
  /\ Call(Request(<<"team">>, NoParams))
  /\ UNCHANGED <<folders_left, lists_left, nrows, ui, restVars>>

\* requests.get(url, headers=headers, params=params) and its answer
Send ==
  /\ http = "send"
  /\ issued' = Append(issued, request)
  /\ \E code \in Statuses : status' = code
  /\ http' = "recv"
  /\ UNCHANGED <<request, attempt, pauses, runVars, restVars>>

\* the answer is 429: one more attempt after a pause
RateLimited ==
  /\ http = "recv"
  /\ status = 429
  /\ attempt < MaxAttempts
  /\ attempt' = attempt + 1
  /\ pauses' = Append(pauses, backoff_sleep(attempt + 1))
  /\ http' = "send"
  /\ UNCHANGED <<request, status, issued, runVars, restVars>>

\* resp.raise_for_status() raises and the except clause of the run block
\* reports the error
RaiseForStatus ==
  /\ http = "recv"
  /\ status /= 429
  /\ status >= 400
  /\ http' = "raised"
  /\ stage' = "failed"
  /\ ui' = Append(ui, "HTTP error")
  /\ UNCHANGED <<request, attempt, status, issued, pauses,
                 folders_left, lists_left, nrows, restVars>>

\* get_json returns resp.json() to the caller
Returned == http = "recv" /\ status /= 429 /\ status < 400

\* no further request: the run ends with the messages shown
EndRun(how, shown) ==
  /\ stage' = how
  /\ ui' = ui \o shown
  /\ http' = "none"
  /\ UNCHANGED <<request, attempt, status, issued, pauses>>

\* get_workspaces has returned: the workspace is looked up by name
GotWorkspaces ==
  /\ Returned
  /\ stage = "team"
  /\ \E found \in BOOLEAN :
       IF found
       THEN /\ stage' = "space"
            /\ Call(Request(<<"team", "space">>, NoParams))
            /\ UNCHANGED ui
       ELSE EndRun("stopped", <<"Workspace not found">>)
  /\ UNCHANGED <<folders_left, lists_left, nrows, restVars>>

\* get_spaces has returned: the space is looked up by name
GotSpaces ==
  /\ Returned
  /\ stage = "space"
  /\ \E found \in BOOLEAN :
       IF found
       THEN /\ stage' = "folder"
            /\ Call(Request(<<"space", "folder">>, NoParams))
            /\ UNCHANGED ui
       ELSE EndRun("stopped", <<"Space not found">>)
  /\ UNCHANGED <<folders_left, lists_left, nrows, restVars>>

\* after the loop over the folders: the frame is built from n rows, filtered,
\* sorted and written, and the success message and the download are shown; a
\* frame of no rows has no "Job Name" column
Export(n) ==
  IF n = 0
  THEN EndRun("failed", <<"Unexpected error">>)
  ELSE EndRun("done", <<"success", "download">>)

\* scan_folder_metadata starts on a folder, k folders being left with it
ScanFolder(k) ==
  /\ folders_left' = k
  /\ stage' = "list"
  /\ Call(Request(<<"folder", k, "list">>, NoParams))
  /\ UNCHANGED ui

\* the scan of the folder is over and its jobs become rows
EndFolder ==
  \E njobs \in 0..MaxJobs :
    /\ nrows' = nrows + njobs
    /\ IF folders_left > 1
       THEN ScanFolder(folders_left - 1)
       ELSE folders_left' = 0 /\ Export(nrows + njobs)

\* get_space_folders has returned n folders
GotFolders ==
  /\ Returned
  /\ stage = "folder"
  /\ \E n \in 0..MaxRunFolders :
       IF n = 0
       THEN UNCHANGED folders_left /\ Export(0)
       ELSE ScanFolder(n)
  /\ UNCHANGED <<lists_left, nrows, restVars>>

\* fetch_list_tasks starts on a list, k lists of the folder being left with it
FetchTasks(k, page) ==
  /\ lists_left' = k
  /\ stage' = "task"
  /\ Call(Request(<<"list", folders_left, k, "task">>, Page(page)))
  /\ UNCHANGED <<ui, folders_left, nrows>>

\* get_lists_in_folder has returned n lists
GotLists ==
  /\ Returned
  /\ stage = "list"
  /\ \E n \in 0..MaxRunLists :
       IF n = 0
       THEN UNCHANGED lists_left /\ EndFolder
       ELSE FetchTasks(n, 0)
  /\ UNCHANGED restVars

\* a page of tasks has returned; `more` when it is full and not the last
GotTasks ==
  /\ Returned
  /\ stage = "task"
  /\ \E more \in (IF request.params[2] < MaxPages THEN BOOLEAN ELSE {FALSE}) :
       IF more
       THEN FetchTasks(lists_left, request.params[2] + 1)
       ELSE IF lists_left > 1
            THEN FetchTasks(lists_left - 1, 0)
            ELSE lists_left' = 0 /\ EndFolder
  /\ UNCHANGED restVars

NextRun ==
  \/ PressRun
  \/ Send
  \/ RateLimited
  \/ RaiseForStatus
  \/ GotWorkspaces
  \/ GotSpaces
  \/ GotFolders
  \/ GotLists
  \/ GotTasks

SpecRun == InitRun /\ [][NextRun]_vars

(***************************************************************************)
(* Properties of get_json and of the run's error handling (checked under   *)
(* SpecRun)                                                                *)
(***************************************************************************)
InCall == http \in {"send", "recv"}
\* min(10, 2^k)
PauseAfter(k) == IF 2 ^ k < 10 THEN 2 ^ k ELSE 10

C9_Call ==
  /\ InCall =>
       \* every answer so far but the last was a 429, followed by its pause
       /\ Len(pauses) = attempt
       /\ \A k \in 1..Len(pauses) : pauses[k] = PauseAfter(k)
       \* and the same request was sent again each time
       /\ Len(issued) = attempt + (IF http = "recv" THEN 1 ELSE 0)
       /\ \A k \in 1..Len(issued) : issued[k] = request
  /\ http = "raised" =>
       /\ status /= 429 /\ status >= 400
       /\ stage = "failed"
       /\ ui = <<"HTTP error">>
  /\ \A k \in 1..Len(ui) : ui[k] \in {"success", "download"} => http /= "raised"

C9_Step ==
  \* a 429 is not surfaced: the same call goes on, after the pause
  /\ (http = "recv" /\ status = 429) =>
        /\ http' = "send" /\ request' = request /\ attempt' = attempt + 1
        /\ pauses' = Append(pauses, PauseAfter(attempt + 1))
        /\ UNCHANGED <<stage, ui>>
  \* a success ends the call at once
  /\ (http = "recv" /\ status < 400) =>
        /\ issued' /= Append(issued, request)
        /\ http' = "send" => issued' = <<>> /\ attempt' = 0
        /\ "HTTP error" \notin {ui'[k] : k \in 1..Len(ui')}
  \* any other answer is raised at once and ends the run
  /\ (http = "recv" /\ status /= 429 /\ status >= 400) =>
        /\ http' = "raised" /\ issued' = issued
        /\ ui' = Append(ui, "HTTP error")
  \* nothing follows the report of the error
  /\ http /= "raised"

\* C9: a 429 answer is never surfaced: the identical request is sent again
\* after a pause of min(10, 2^k) seconds following the k-th consecutive 429,
\* however many there are, and get_json returns as soon as a successful answer
\* arrives. Any other non-success answer is raised on its first occurrence with
\* no retry, and the run ends with a failure message and without a success
\* message or a download.
C9_RetryOnlyOnRateLimit == []C9_Call /\ [][C9_Step]_vars

\* a page of tasks was asked for five times, the pauses reached the cap, and
\* the answer after that was an error: the run has failed
C9_Witness ==
  /\ http = "raised" /\ stage = "failed"
  /\ request.url[1] = "list"
  /\ attempt = 4 /\ pauses = <<2, 4, 8, 10>>
  /\ Len(issued) = 5
  /\ ui = <<"HTTP error">>

====
